---- MODULE Spec2Model ----
(***************************************************************************)
(* A model of go-flows' packet pipeline core:                              *)
(*   - packet/flow.go        tcpFlow.Event (TCP teardown state machine)    *)
(*   - flows timer array     funcEntries.expire / addTimer / hasTimer      *)
(*   - packet/multibuffer.go multiPacketBuffer (pool) and batches          *)
(* Each subsystem has its own specification over the shared variables; the *)
(* variables of the other subsystems stay at their initial values.         *)
(***************************************************************************)
EXTENDS Integers, Sequences, FiniteSets, TLC

VARIABLES
    \* ---- tcpFlow (packet/flow.go) ----
    flow,       \* [active, srcFIN, dstFIN, dstACK, srcACK]
    exported,   \* sequence of export records [reason, when] handed to the exporter
    pktWhen,    \* context.When() of the last delivered packet
    nEvents,    \* number of events delivered so far
    lastPkt,    \* the last delivered packet
    seen,       \* observer of the packet stream: what the delivered packets showed
    scen,       \* how far the delivered packets follow the graceful-teardown scenario
    \* ---- funcEntries (flows timer array) ----
    entries,    \* the flow's funcEntries: sequence of [function, context]
    timerNow,   \* the time of the last expire call
    fired,      \* callbacks invoked by the last operation (an expire), in invocation order
    nextRet,    \* value returned by the last operation when it was an expire
    timerOp,    \* the last timer operation: [op, id, function, when]
    prevExp,    \* the expire call right before the last one, when that was an expire
    armed,      \* observer: per TimerID the timer added and neither overwritten nor due yet
    timerPanic, \* "none", or the run-time panic that ended the program
    \* ---- multiPacketBuffer, batches and their ring (packet/multibuffer.go) ----
    producers,  \* the goroutines that call Pop on the pool
    buffers,    \* mpb.buffers: the pool's packetBuffers, by id
    inUse,      \* packetBuffer.inUse of every buffer id
    refcnt,     \* references held on a buffer by the stages (its recycle condition)
    numFree,    \* mpb.numFree
    mutex,      \* mpb.cond.L: 0 when free, else the producer holding it
    waiters,    \* mpb.cond's notify list, in arrival order
    woken,      \* waiters that a Signal has released and that have not run yet
    batch,      \* per batch: bufs (buffers[:windex]) and rindex
    emptyCh,    \* ring.empty
    fullCh,     \* ring.full
    ringStat,   \* [currentBuffers, currentPackets] of the ring
    prod,       \* per producer: pc, its batch b, scan index idx, num, low
    cons,       \* the consumer stage: pc, its batch b, index idx, num
    retained,   \* buffers another stage holds a reference to
    holder,     \* that stage: pc
    cleared,    \* observer: clears of inUse per buffer since Pop last handed it out
    \* ---- fivetuple (flow key of a packet) ----
    keyPkt,     \* the decoded packet: [srcIP, dstIP, srcPort, dstPort, proto]
    keyRes,     \* fivetuple of the packet and of its reverse, once computed
    \* ---- shutdown of the ring (ring.close) ----
    closed,     \* ring.full has been closed
    atClose,    \* observer: the batches queued in ring.full when it was closed
    afterClose, \* observer: the batches popFull delivered since the close, in order
    eos,        \* observer: popFull has reported ok = false
    \* ---- RegisterTimer ----
    timerMaxID, \* the package variable timerMaxID: the number of TimerIDs handed out
    \* ---- multiPacketBuffer.release ----
    relPanic    \* "none", or the run-time panic that ended a release

tcpVars == <<flow, exported, pktWhen, nEvents, lastPkt, seen, scen>>

timerVars == <<entries, timerNow, fired, nextRet, timerOp, prevExp, armed, timerPanic>>

poolVars == <<producers, buffers, inUse, refcnt, numFree, mutex, waiters, woken, batch,
              emptyCh, fullCh, ringStat, prod, cons, retained, holder, cleared>>

keyVars == <<keyPkt, keyRes>>

ringVars == <<closed, atClose, afterClose, eos>>

\* The variables outside the three core subsystems.
regVars == <<timerMaxID, relPanic>>

extVars == <<keyVars, ringVars, regVars>>

vars == <<flow, exported, pktWhen, nEvents, lastPkt, seen, scen,
          entries, timerNow, fired, nextRet, timerOp, prevExp, armed, timerPanic,
          producers, buffers, inUse, refcnt, numFree, mutex, waiters, woken, batch,
          emptyCh, fullCh, ringStat, prod, cons, retained, holder, cleared,
          keyPkt, keyRes, closed, atClose, afterClose, eos,
          timerMaxID, relPanic>>

(***************************************************************************)
(* Bounds                                                                  *)
(***************************************************************************)
MaxEvents == 8
MaxTime == 3
MaxTimerID == 3
MaxTimerTime == 2
MaxReplenish == 2
MaxRetained == 1
MaxByte == 1

(***************************************************************************)
(* multiPacketBuffer: the buffer pool                                      *)
(***************************************************************************)
\* batchSize: buffers per batch (a package constant; scaled down)
BatchSize == 2
\* mpb.allocSize: buffers per replenish
AllocSize == 2
\* buffers of newShallowMultiPacketBufferRing: batches in the ring
RingDepth == 2

Procs == {1, 2}
Batches == 1..RingDepth
BufIds == 1..(AllocSize * MaxReplenish)

Range(q) == {q[i] : i \in 1..Len(q)}

\* newShallowMultiPacketBuffer / reset(): windex = rindex = 0
EmptyBatch == [bufs |-> <<>>, rindex |-> 0]

\* grown (an observer field): the pool was replenished after this Pop decided to wait
IdleProd == [pc |-> "idle", b |-> 0, idx |-> 0, num |-> 0, low |-> FALSE, grown |-> FALSE]
IdleCons == [pc |-> "idle", b |-> 0, idx |-> 0, num |-> 0]

\* newMultiPacketBuffer and newShallowMultiPacketBufferRing
PoolNew ==
    /\ buffers = <<>>
    /\ inUse = [b \in BufIds |-> 0]
    /\ refcnt = [b \in BufIds |-> 0]
    /\ numFree = 0
    /\ mutex = 0
    /\ waiters = <<>>
    /\ woken = {}
    /\ batch = [k \in Batches |-> EmptyBatch]
    /\ emptyCh = [i \in 1..RingDepth |-> i]
    /\ fullCh = <<>>
    /\ ringStat = [currentBuffers |-> 0, currentPackets |-> 0]
    /\ prod = [p \in Procs |-> IdleProd]
    /\ cons = IdleCons
    /\ retained = {}
    /\ holder = "idle"
    /\ cleared = [b \in BufIds |-> 0]

PoolIdle == producers = {1} /\ PoolNew

Scanning(p) == prod[p].pc \in {"scan", "store"}

\* replenish storing allocSize instead of adding it (mutant).
ReplenishedStore == AllocSize

\* replenish, line 56: AddInt32(&mpb.numFree, mpb.allocSize)
Replenished == numFree + AllocSize

\* multiPacketBuffer.replenish; mpb.buffers is not written while a Pop ranges over it.
Replenish ==
    /\ Len(buffers) + AllocSize <= AllocSize * MaxReplenish
    /\ \A p \in producers : ~Scanning(p)
    /\ buffers' = buffers \o [j \in 1..AllocSize |-> Len(buffers) + j]
    /\ numFree' = Replenished
    /\ prod' = [p \in Procs |->
                  IF prod[p].pc \in {"wait", "waiting"}
                  THEN [prod[p] EXCEPT !.grown = TRUE] ELSE prod[p]]
    /\ UNCHANGED <<producers, inUse, refcnt, mutex, waiters, woken, batch, emptyCh, fullCh,
                   ringStat, cons, retained, holder, cleared>>

\* mpb.cond.Signal(): release the first waiter of the notify list, if any.
SignalWaiters == IF waiters = <<>> THEN waiters ELSE Tail(waiters)
SignalWoken == IF waiters = <<>> THEN woken ELSE woken \cup {Head(waiters)}

\* The test of multiPacketBuffer.free on the value AddInt32 returned.
FreeSignals(n) == n > BatchSize

\* packetBuffer.canRecycle: the reference count after dropping one reference,
\* and whether no stage retains a reference.
CanRecycle(b) == refcnt[b] - 1 <= 0

\* ring.popEmpty by a producer
PopEmpty(p) ==
    /\ prod[p].pc = "idle"
    /\ emptyCh # <<>>
    /\ prod' = [prod EXCEPT ![p] = [IdleProd EXCEPT !.pc = "pop", !.b = Head(emptyCh)]]
    /\ emptyCh' = Tail(emptyCh)
    /\ UNCHANGED <<producers, buffers, inUse, refcnt, numFree, mutex, waiters, woken, batch,
                   fullCh, ringStat, cons, retained, holder, cleared>>

\* Pop, lines 87-88: buffer.reset() and the first load of numFree
PopBegin(p) ==
    /\ prod[p].pc = "pop"
    /\ batch' = [batch EXCEPT ![prod[p].b] = EmptyBatch]
    /\ prod' = [prod EXCEPT ![p].pc = IF numFree < BatchSize THEN "lock" ELSE "scan",
                            ![p].idx = 1, ![p].num = 0, ![p].low = FALSE]
    /\ UNCHANGED <<producers, buffers, inUse, refcnt, numFree, mutex, waiters, woken,
                   emptyCh, fullCh, ringStat, cons, retained, holder, cleared>>

\* Pop, line 89: mpb.cond.L.Lock()
PopLock(p) ==
    /\ prod[p].pc = "lock"
    /\ mutex = 0
    /\ mutex' = p
    /\ prod' = [prod EXCEPT ![p].pc = "loop"]
    /\ UNCHANGED <<producers, buffers, inUse, refcnt, numFree, waiters, woken, batch,
                   emptyCh, fullCh, ringStat, cons, retained, holder, cleared>>

\* Pop, lines 90-91 and 96: the loop condition; low(...) when it holds, Unlock when not
PopLoop(p) ==
    /\ prod[p].pc = "loop"
    /\ IF numFree < BatchSize
       THEN /\ prod' = [prod EXCEPT ![p].pc = "recheck", ![p].low = TRUE]
            /\ UNCHANGED mutex
       ELSE /\ prod' = [prod EXCEPT ![p].pc = "scan"]
            /\ mutex' = 0
    /\ UNCHANGED <<producers, buffers, inUse, refcnt, numFree, waiters, woken, batch,
                   emptyCh, fullCh, ringStat, cons, retained, holder, cleared>>

\* Pop, line 92: the load of numFree that decides to wait
PopRecheck(p) ==
    /\ prod[p].pc = "recheck"
    /\ prod' = [prod EXCEPT ![p].pc = IF numFree < BatchSize THEN "wait" ELSE "loop"]
    /\ UNCHANGED <<producers, buffers, inUse, refcnt, numFree, mutex, waiters, woken, batch,
                   emptyCh, fullCh, ringStat, cons, retained, holder, cleared>>

\* Pop, line 93: mpb.cond.Wait() joins the notify list and unlocks
PopWait(p) ==
    /\ prod[p].pc = "wait"
    /\ waiters' = Append(waiters, p)
    /\ mutex' = 0
    /\ prod' = [prod EXCEPT ![p].pc = "waiting"]
    /\ UNCHANGED <<producers, buffers, inUse, refcnt, numFree, woken, batch,
                   emptyCh, fullCh, ringStat, cons, retained, holder, cleared>>

\* Pop, line 93: mpb.cond.Wait() returns after a Signal, with the lock held again
PopWake(p) ==
    /\ prod[p].pc = "waiting"
    /\ p \in woken
    /\ mutex = 0
    /\ mutex' = p
    /\ woken' = woken \ {p}
    /\ prod' = [prod EXCEPT ![p].pc = "loop", ![p].grown = FALSE]
    /\ UNCHANGED <<producers, buffers, inUse, refcnt, numFree, waiters, batch,
                   emptyCh, fullCh, ringStat, cons, retained, holder, cleared>>

\* shallowMultiPacketBuffer.push: whether the batch takes another buffer
PushOk(k) == Len(batch[k].bufs) < BatchSize

\* Pop taking every buffer it ranges over, in use or not.
IsFreeAlways(b) == TRUE

\* Pop, line 100: atomic.LoadInt32(&b.inUse) == 0
IsFree(b) == inUse[b] = 0

\* Pop, lines 99-103: one iteration of the scan up to buffer.push
PopScan(p) ==
    /\ prod[p].pc = "scan"
    /\ LET i == prod[p].idx
           k == prod[p].b
       IN  IF i > Len(buffers)
           THEN /\ prod' = [prod EXCEPT ![p].pc = "sub"]
                /\ UNCHANGED batch
           ELSE IF IsFree(buffers[i])
           THEN IF PushOk(k)
                THEN /\ batch' = [batch EXCEPT ![k].bufs = Append(@, buffers[i])]
                     /\ prod' = [prod EXCEPT ![p].pc = "store"]
                ELSE /\ prod' = [prod EXCEPT ![p].pc = "sub"]
                     /\ UNCHANGED batch
           ELSE /\ prod' = [prod EXCEPT ![p].idx = i + 1]
                /\ UNCHANGED batch
    /\ UNCHANGED <<producers, buffers, inUse, refcnt, numFree, mutex, waiters, woken,
                   emptyCh, fullCh, ringStat, cons, retained, holder, cleared>>

\* Pop, lines 104-105: StoreInt32(&b.inUse, 1); num++. The producer's
\* reference on the buffer it fills is counted from here.
PopStore(p) ==
    /\ prod[p].pc = "store"
    /\ LET b == buffers[prod[p].idx]
       IN  /\ inUse' = [inUse EXCEPT ![b] = 1]
           /\ refcnt' = [refcnt EXCEPT ![b] = 1]
           /\ cleared' = [cleared EXCEPT ![b] = 0]
    /\ prod' = [prod EXCEPT ![p].pc = "scan", ![p].idx = @ + 1, ![p].num = @ + 1]
    /\ UNCHANGED <<producers, buffers, numFree, mutex, waiters, woken, batch,
                   emptyCh, fullCh, ringStat, cons, retained, holder>>

\* Pop, lines 108-109: AddInt32(&numFree, -num), high(...), return
PopSub(p) ==
    /\ prod[p].pc = "sub"
    /\ numFree' = numFree - prod[p].num
    /\ prod' = [prod EXCEPT ![p].pc = "held"]
    /\ UNCHANGED <<producers, buffers, inUse, refcnt, mutex, waiters, woken, batch,
                   emptyCh, fullCh, ringStat, cons, retained, holder, cleared>>

(***************************************************************************)
(* shallowMultiPacketBuffer (a batch) and its ring                         *)
(***************************************************************************)
\* shallowMultiPacketBuffer.read by the producer that fills the batch
Read(p) ==
    /\ prod[p].pc = "held"
    /\ batch[prod[p].b].rindex < Len(batch[prod[p].b].bufs)
    /\ batch' = [batch EXCEPT ![prod[p].b].rindex = @ + 1]
    /\ UNCHANGED <<producers, buffers, inUse, refcnt, numFree, mutex, waiters, woken,
                   emptyCh, fullCh, ringStat, prod, cons, retained, holder, cleared>>

\* The ring counters after finalize of a batch with windex = n
FinalizeStat(n) == [currentBuffers |-> ringStat.currentBuffers + 1,
                    currentPackets |-> ringStat.currentPackets + n]

\* shallowMultiPacketBuffer.finalize: rindex = 0, count, send on ring.full
Finalize(p) ==
    /\ prod[p].pc = "held"
    /\ Len(fullCh) < RingDepth
    /\ batch' = [batch EXCEPT ![prod[p].b].rindex = 0]
    /\ ringStat' = FinalizeStat(Len(batch[prod[p].b].bufs))
    /\ fullCh' = Append(fullCh, prod[p].b)
    /\ prod' = [prod EXCEPT ![p] = IdleProd]
    /\ UNCHANGED <<producers, buffers, inUse, refcnt, numFree, mutex, waiters, woken,
                   emptyCh, cons, retained, holder, cleared>>

\* finalizeWritten, line 169: rec = buffers[rindex:windex]
FinalizeWrittenBegin(p) ==
    /\ prod[p].pc = "held"
    /\ prod' = [prod EXCEPT ![p].pc = "fw", ![p].idx = batch[prod[p].b].rindex + 1]
    /\ UNCHANGED <<producers, buffers, inUse, refcnt, numFree, mutex, waiters, woken, batch,
                   emptyCh, fullCh, ringStat, cons, retained, holder, cleared>>

\* finalizeWritten, line 171: buf.Recycle() up to its StoreInt32(&inUse, 0)
FinalizeWrittenRecycle(p) ==
    /\ prod[p].pc = "fw"
    /\ prod[p].idx <= Len(batch[prod[p].b].bufs)
    /\ LET b == batch[prod[p].b].bufs[prod[p].idx]
       IN  /\ refcnt' = [refcnt EXCEPT ![b] = @ - 1]
           /\ IF CanRecycle(b)
              THEN /\ inUse' = [inUse EXCEPT ![b] = 0]
                   /\ cleared' = [cleared EXCEPT ![b] = @ + 1]
                   /\ prod' = [prod EXCEPT ![p].pc = "fwfree", ![p].idx = @ + 1]
              ELSE /\ prod' = [prod EXCEPT ![p].idx = @ + 1]
                   /\ UNCHANGED <<inUse, cleared>>
    /\ UNCHANGED <<producers, buffers, numFree, mutex, waiters, woken, batch,
                   emptyCh, fullCh, ringStat, cons, retained, holder>>

\* buf.Recycle() -> mpb.free(1): the AddInt32
FinalizeWrittenFree(p) ==
    /\ prod[p].pc = "fwfree"
    /\ numFree' = numFree + 1
    /\ prod' = [prod EXCEPT ![p].pc = IF FreeSignals(numFree + 1) THEN "fwsig" ELSE "fw"]
    /\ UNCHANGED <<producers, buffers, inUse, refcnt, mutex, waiters, woken, batch,
                   emptyCh, fullCh, ringStat, cons, retained, holder, cleared>>

\* buf.Recycle() -> mpb.free(1): the Signal
FinalizeWrittenSignal(p) ==
    /\ prod[p].pc = "fwsig"
    /\ waiters' = SignalWaiters
    /\ woken' = SignalWoken
    /\ prod' = [prod EXCEPT ![p].pc = "fw"]
    /\ UNCHANGED <<producers, buffers, inUse, refcnt, numFree, mutex, batch,
                   emptyCh, fullCh, ringStat, cons, retained, holder, cleared>>

\* finalizeWritten forgetting windex = rindex (mutant).
WrittenPartKeepAll(bt) == [bufs |-> bt.bufs, rindex |-> 0]

\* finalizeWritten, line 173 (windex = rindex) followed by finalize's rindex = 0
WrittenPart(bt) == [bufs |-> SubSeq(bt.bufs, 1, bt.rindex), rindex |-> 0]

\* finalizeWritten, lines 173-174: windex = rindex; finalize()
FinalizeWrittenEnd(p) ==
    /\ prod[p].pc = "fw"
    /\ prod[p].idx > Len(batch[prod[p].b].bufs)
    /\ Len(fullCh) < RingDepth
    /\ batch' = [batch EXCEPT ![prod[p].b] = WrittenPart(@)]
    /\ ringStat' = FinalizeStat(batch[prod[p].b].rindex)
    /\ fullCh' = Append(fullCh, prod[p].b)
    /\ prod' = [prod EXCEPT ![p] = IdleProd]
    /\ UNCHANGED <<producers, buffers, inUse, refcnt, numFree, mutex, waiters, woken,
                   emptyCh, cons, retained, holder, cleared>>

\* ring.popFull by the consumer
PopFull ==
    /\ cons.pc = "idle"
    /\ fullCh # <<>>
    /\ cons' = [IdleCons EXCEPT !.pc = "got", !.b = Head(fullCh)]
    /\ fullCh' = Tail(fullCh)
    /\ ringStat' = [currentBuffers |-> ringStat.currentBuffers - 1,
                    currentPackets |-> ringStat.currentPackets - Len(batch[Head(fullCh)].bufs)]
    /\ UNCHANGED <<producers, buffers, inUse, refcnt, numFree, mutex, waiters, woken, batch,
                   emptyCh, prod, retained, holder, cleared>>

\* Another stage takes a reference on a buffer of the consumer's batch.
Retain ==
    /\ cons.pc = "got"
    /\ Cardinality(retained) < MaxRetained
    /\ \E b \in Range(batch[cons.b].bufs) \ retained :
         /\ refcnt' = [refcnt EXCEPT ![b] = @ + 1]
         /\ retained' = retained \cup {b}
    /\ UNCHANGED <<producers, buffers, inUse, numFree, mutex, waiters, woken, batch,
                   emptyCh, fullCh, ringStat, prod, cons, holder, cleared>>

\* shallowMultiPacketBuffer.recycleEmpty: reset and send on ring.empty
RecycleEmpty ==
    /\ cons.pc = "got"
    /\ batch[cons.b].bufs = <<>>
    /\ Len(emptyCh) < RingDepth
    /\ batch' = [batch EXCEPT ![cons.b] = EmptyBatch]
    /\ emptyCh' = Append(emptyCh, cons.b)
    /\ cons' = IdleCons
    /\ UNCHANGED <<producers, buffers, inUse, refcnt, numFree, mutex, waiters, woken,
                   fullCh, ringStat, prod, retained, holder, cleared>>

\* recycle, lines 185-188: the test of empty() and the start of the loop
RecycleBegin ==
    /\ cons.pc = "got"
    /\ cons' = [cons EXCEPT !.pc = IF batch[cons.b].bufs = <<>> THEN "rdone" ELSE "rec",
                            !.idx = 1, !.num = 0]
    /\ UNCHANGED <<producers, buffers, inUse, refcnt, numFree, mutex, waiters, woken, batch,
                   emptyCh, fullCh, ringStat, prod, retained, holder, cleared>>

\* recycle, lines 189-194: one iteration: canRecycle, StoreInt32(&inUse, 0), num++
RecycleOne ==
    /\ cons.pc = "rec"
    /\ cons.idx <= Len(batch[cons.b].bufs)
    /\ LET b == batch[cons.b].bufs[cons.idx]
       IN  /\ refcnt' = [refcnt EXCEPT ![b] = @ - 1]
           /\ IF CanRecycle(b)
              THEN /\ inUse' = [inUse EXCEPT ![b] = 0]
                   /\ cleared' = [cleared EXCEPT ![b] = @ + 1]
                   /\ cons' = [cons EXCEPT !.idx = @ + 1, !.num = @ + 1]
              ELSE /\ cons' = [cons EXCEPT !.idx = @ + 1]
                   /\ UNCHANGED <<inUse, cleared>>
    /\ UNCHANGED <<producers, buffers, numFree, mutex, waiters, woken, batch,
                   emptyCh, fullCh, ringStat, prod, retained, holder>>

\* recycle, line 195: mpb.free(num): the AddInt32
RecycleFree ==
    /\ cons.pc = "rec"
    /\ cons.idx > Len(batch[cons.b].bufs)
    /\ numFree' = numFree + cons.num
    /\ cons' = [cons EXCEPT !.pc = IF FreeSignals(numFree + cons.num) THEN "sig" ELSE "rdone"]
    /\ UNCHANGED <<producers, buffers, inUse, refcnt, mutex, waiters, woken, batch,
                   emptyCh, fullCh, ringStat, prod, retained, holder, cleared>>

\* recycle, line 195: mpb.free(num): the Signal
RecycleSignal ==
    /\ cons.pc = "sig"
    /\ waiters' = SignalWaiters
    /\ woken' = SignalWoken
    /\ cons' = [cons EXCEPT !.pc = "rdone"]
    /\ UNCHANGED <<producers, buffers, inUse, refcnt, numFree, mutex, batch,
                   emptyCh, fullCh, ringStat, prod, retained, holder, cleared>>

\* recycle sending its batch on ring.empty twice.
RecycleEndTwice ==
    /\ cons.pc = "rdone"
    /\ Len(emptyCh) < RingDepth
    /\ batch' = [batch EXCEPT ![cons.b] = EmptyBatch]
    /\ emptyCh' = Append(Append(emptyCh, cons.b), cons.b)
    /\ cons' = IdleCons
    /\ UNCHANGED <<producers, buffers, inUse, refcnt, numFree, mutex, waiters, woken,
                   fullCh, ringStat, prod, retained, holder, cleared>>

\* recycle, lines 197-200: reset and send on ring.empty
RecycleEnd ==
    /\ cons.pc = "rdone"
    /\ Len(emptyCh) < RingDepth
    /\ batch' = [batch EXCEPT ![cons.b] = EmptyBatch]
    /\ emptyCh' = Append(emptyCh, cons.b)
    /\ cons' = IdleCons
    /\ UNCHANGED <<producers, buffers, inUse, refcnt, numFree, mutex, waiters, woken,
                   fullCh, ringStat, prod, retained, holder, cleared>>

\* packetBuffer.Recycle by the stage that retained the buffer, up to the store
HolderRecycle ==
    /\ holder = "idle"
    /\ \E b \in retained :
         /\ retained' = retained \ {b}
         /\ refcnt' = [refcnt EXCEPT ![b] = @ - 1]
         /\ IF CanRecycle(b)
            THEN /\ inUse' = [inUse EXCEPT ![b] = 0]
                 /\ cleared' = [cleared EXCEPT ![b] = @ + 1]
                 /\ holder' = "free"
            ELSE UNCHANGED <<inUse, cleared, holder>>
    /\ UNCHANGED <<producers, buffers, numFree, mutex, waiters, woken, batch,
                   emptyCh, fullCh, ringStat, prod, cons>>

\* packetBuffer.Recycle -> mpb.free(1): the AddInt32
HolderFree ==
    /\ holder = "free"
    /\ numFree' = numFree + 1
    /\ holder' = IF FreeSignals(numFree + 1) THEN "sig" ELSE "idle"
    /\ UNCHANGED <<producers, buffers, inUse, refcnt, mutex, waiters, woken, batch,
                   emptyCh, fullCh, ringStat, prod, cons, retained, cleared>>

\* packetBuffer.Recycle -> mpb.free(1): the Signal
HolderSignal ==
    /\ holder = "sig"
    /\ waiters' = SignalWaiters
    /\ woken' = SignalWoken
    /\ holder' = "idle"
    /\ UNCHANGED <<producers, buffers, inUse, refcnt, numFree, mutex, batch,
                   emptyCh, fullCh, ringStat, prod, cons, retained, cleared>>

(***************************************************************************)
(* Who holds what                                                          *)
(***************************************************************************)
PopPcs == {"pop", "lock", "loop", "recheck", "wait", "waiting", "scan", "store", "sub"}
WrittenPcs == {"fw", "fwfree", "fwsig"}

Tl(q, i) == {q[j] : j \in i..Len(q)}

\* The buffers batch k carries: handed out by Pop (inUse stored as 1) to the
\* stage that has the batch, and not recycled by that stage yet.
Live(k) ==
    LET bt == batch[k]
    IN  IF cons.b = k
        THEN CASE cons.pc = "got" -> Range(bt.bufs)
               [] cons.pc = "rec" -> Tl(bt.bufs, cons.idx)
               [] OTHER -> {}
        ELSE IF \E p \in producers : prod[p].b = k /\ prod[p].pc \in WrittenPcs
        THEN LET p == CHOOSE q \in producers : prod[q].b = k /\ prod[q].pc \in WrittenPcs
             IN  {bt.bufs[j] : j \in 1..bt.rindex} \cup Tl(bt.bufs, prod[p].idx)
        ELSE IF \E p \in producers : prod[p].b = k /\ prod[p].pc = "store"
        THEN {bt.bufs[j] : j \in 1..(Len(bt.bufs) - 1)}
        ELSE Range(bt.bufs)

\* Batch k has been returned by Pop and not yet gone back to ring.empty.
Returned(k) ==
    \/ \E i \in 1..Len(fullCh) : fullCh[i] = k
    \/ cons.b = k
    \/ \E p \in producers : prod[p].b = k /\ prod[p].pc \notin PopPcs

\* No buffer is handed out to two batches at the same time.
Exclusive ==
    \A k1, k2 \in Batches : k1 # k2 => Live(k1) \cap Live(k2) = {}

Producer(p) ==
    \/ PopEmpty(p) \/ PopBegin(p) \/ PopLock(p) \/ PopLoop(p) \/ PopRecheck(p)
    \/ PopWait(p) \/ PopWake(p) \/ PopScan(p) \/ PopStore(p) \/ PopSub(p)
    \/ Read(p) \/ Finalize(p)
    \/ FinalizeWrittenBegin(p) \/ FinalizeWrittenRecycle(p) \/ FinalizeWrittenFree(p)
    \/ FinalizeWrittenSignal(p) \/ FinalizeWrittenEnd(p)

Consumer ==
    \/ PopFull \/ RecycleEmpty \/ RecycleBegin \/ RecycleOne
    \/ RecycleFree \/ RecycleSignal \/ RecycleEnd

Holder == Retain \/ HolderRecycle \/ HolderFree \/ HolderSignal

\* The pool, its producers and the consumer of the ring.
PipelineNext ==
    \/ Replenish
    \/ \E p \in producers : Producer(p)
    \/ Consumer

\* The same with a further stage that retains buffers and recycles them singly.
PoolNext ==
    \/ PipelineNext
    \/ Holder

(***************************************************************************)
(* tcpFlow                                                                 *)
(***************************************************************************)
FlowEndReasonEnd == "end"

\* A TCP packet as tcpFlow.Event reads it: the direction bit of the context
\* and the SYN, FIN, ACK, RST flags of the TCP layer.
Packets == [forward : BOOLEAN, SYN : BOOLEAN, FIN : BOOLEAN, ACK : BOOLEAN, RST : BOOLEAN]

NewTcpFlow == [active |-> TRUE, srcFIN |-> FALSE, dstFIN |-> FALSE,
               dstACK |-> FALSE, srcACK |-> FALSE]

\* flow.Active()
Active(f) == f.active

\* BaseFlow.Event: updates features and the idle/active timers; it touches
\* neither the teardown bits nor the active flag.
BaseFlowEvent(f) == f

\* BaseFlow.Export: an active flow is handed to the exporter and terminated;
\* a flow that already exported is left alone.
BaseFlowExport(r, reason, when) ==
    IF Active(r.flow)
    THEN [flow |-> [r.flow EXCEPT !.active = FALSE],
          out  |-> Append(r.out, [reason |-> reason, when |-> when])]
    ELSE r

\* tcpFlow.Event without the early return for an inactive flow (mutant).
TcpEventNoActiveCheck(f, pkt, when) ==
    LET f0 == BaseFlowEvent(f)
        r0 == [flow |-> f0, out |-> <<>>]
    IN  IF pkt.RST THEN BaseFlowExport(r0, FlowEndReasonEnd, when)
        ELSE LET f1 == IF pkt.forward
                       THEN [f0 EXCEPT !.srcFIN = f0.srcFIN \/ pkt.FIN,
                                       !.dstACK = f0.dstACK \/ (f0.dstFIN /\ pkt.ACK)]
                       ELSE [f0 EXCEPT !.dstFIN = f0.dstFIN \/ pkt.FIN,
                                       !.srcACK = f0.srcACK \/ (f0.srcFIN /\ pkt.ACK)]
                 r1 == [r0 EXCEPT !.flow = f1]
             IN  IF f1.srcFIN /\ f1.srcACK /\ f1.dstFIN /\ f1.dstACK
                 THEN BaseFlowExport(r1, FlowEndReasonEnd, when)
                 ELSE r1

\* tcpFlow.Event with the FIN and ACK steps exclusive (else-if), and
\* the RST test after the teardown bits (mutants).
TcpEventElseIf(f, pkt, when) ==
    LET f0 == BaseFlowEvent(f)
        r0 == [flow |-> f0, out |-> <<>>]
    IN  IF ~Active(f0) THEN r0
        ELSE IF pkt.RST THEN BaseFlowExport(r0, FlowEndReasonEnd, when)
        ELSE LET f1 == IF pkt.forward
                       THEN IF pkt.FIN THEN [f0 EXCEPT !.srcFIN = TRUE]
                            ELSE IF f0.dstFIN /\ pkt.ACK THEN [f0 EXCEPT !.dstACK = TRUE]
                            ELSE f0
                       ELSE IF pkt.FIN THEN [f0 EXCEPT !.dstFIN = TRUE]
                            ELSE IF f0.srcFIN /\ pkt.ACK THEN [f0 EXCEPT !.srcACK = TRUE]
                            ELSE f0
                 r1 == [r0 EXCEPT !.flow = f1]
             IN  IF f1.srcFIN /\ f1.srcACK /\ f1.dstFIN /\ f1.dstACK
                 THEN BaseFlowExport(r1, FlowEndReasonEnd, when)
                 ELSE r1

TcpEventRstLate(f, pkt, when) ==
    LET f0 == BaseFlowEvent(f)
        r0 == [flow |-> f0, out |-> <<>>]
    IN  IF ~Active(f0) THEN r0
        ELSE LET f1 == IF pkt.forward
                       THEN [f0 EXCEPT !.srcFIN = f0.srcFIN \/ pkt.FIN,
                                       !.dstACK = f0.dstACK \/ (f0.dstFIN /\ pkt.ACK)]
                       ELSE [f0 EXCEPT !.dstFIN = f0.dstFIN \/ pkt.FIN,
                                       !.srcACK = f0.srcACK \/ (f0.srcFIN /\ pkt.ACK)]
                 r1 == [r0 EXCEPT !.flow = f1]
             IN  IF pkt.RST \/ (f1.srcFIN /\ f1.srcACK /\ f1.dstFIN /\ f1.dstACK)
                 THEN BaseFlowExport(r1, FlowEndReasonEnd, when)
                 ELSE r1

\* tcpFlow.Event recording an ACK without testing the opposite side's FIN.
TcpEventAckAlways(f, pkt, when) ==
    LET f0 == BaseFlowEvent(f)
        r0 == [flow |-> f0, out |-> <<>>]
    IN  IF ~Active(f0) THEN r0
        ELSE IF pkt.RST THEN BaseFlowExport(r0, FlowEndReasonEnd, when)
        ELSE LET f1 == IF pkt.forward
                       THEN [f0 EXCEPT !.srcFIN = f0.srcFIN \/ pkt.FIN,
                                       !.dstACK = f0.dstACK \/ pkt.ACK]
                       ELSE [f0 EXCEPT !.dstFIN = f0.dstFIN \/ pkt.FIN,
                                       !.srcACK = f0.srcACK \/ pkt.ACK]
                 r1 == [r0 EXCEPT !.flow = f1]
             IN  IF f1.srcFIN /\ f1.srcACK /\ f1.dstFIN /\ f1.dstACK
                 THEN BaseFlowExport(r1, FlowEndReasonEnd, when)
                 ELSE r1

\* tcpFlow.Event(event, context): the flow after the event and the exports
\* the event produced.
TcpEvent(f, pkt, when) ==
    LET f0 == BaseFlowEvent(f)
        r0 == [flow |-> f0, out |-> <<>>]
    IN  IF ~Active(f0) THEN r0
        ELSE IF pkt.RST THEN BaseFlowExport(r0, FlowEndReasonEnd, when)
        ELSE LET f1 == IF pkt.forward
                       THEN [f0 EXCEPT !.srcFIN = f0.srcFIN \/ pkt.FIN,
                                       !.dstACK = f0.dstACK \/ (f0.dstFIN /\ pkt.ACK)]
                       ELSE [f0 EXCEPT !.dstFIN = f0.dstFIN \/ pkt.FIN,
                                       !.srcACK = f0.srcACK \/ (f0.srcFIN /\ pkt.ACK)]
                 r1 == [r0 EXCEPT !.flow = f1]
             IN  IF f1.srcFIN /\ f1.srcACK /\ f1.dstFIN /\ f1.dstACK
                 THEN BaseFlowExport(r1, FlowEndReasonEnd, when)
                 ELSE r1

(***************************************************************************)
(* The packet stream as an observer sees it, independent of the flow.      *)
(***************************************************************************)
NoPacket == [forward |-> TRUE, SYN |-> FALSE, FIN |-> FALSE, ACK |-> FALSE, RST |-> FALSE]

SeenNothing == [finFwd |-> FALSE, finRev |-> FALSE, ackRev |-> FALSE, ackFwd |-> FALSE,
                rst |-> FALSE, post |-> FALSE]

\* finFwd/finRev: a FIN was seen in that direction; ackRev: an ACK from the
\* reverse direction was seen after the forward FIN; ackFwd: an ACK from the
\* forward direction after the reverse FIN; rst: some packet carried RST;
\* post: a packet was delivered after the flow had exported.
Observe(s, pkt, wasActive) ==
    [finFwd |-> s.finFwd \/ (pkt.forward /\ pkt.FIN),
     finRev |-> s.finRev \/ (~pkt.forward /\ pkt.FIN),
     ackRev |-> s.ackRev \/ (~pkt.forward /\ pkt.ACK /\ s.finFwd),
     ackFwd |-> s.ackFwd \/ (pkt.forward /\ pkt.ACK /\ s.finRev),
     rst    |-> s.rst \/ pkt.RST,
     post   |-> s.post \/ ~wasActive]

TornDown(s) == s.finFwd /\ s.finRev /\ s.ackRev /\ s.ackFwd

\* SYN(fwd), SYN-ACK(rev), data, FIN(fwd), ACK(rev), FIN(rev), ACK(fwd)
Scenario == <<"SYN", "SYN-ACK", "data", "FIN", "ACK", "FIN", "ACK">>
ScenarioLen == Len(Scenario)
ScenarioMatch(k, pkt) ==
    /\ ~pkt.RST
    /\ CASE k = 1 -> pkt.forward /\ pkt.SYN /\ ~pkt.FIN /\ ~pkt.ACK
         [] k = 2 -> ~pkt.forward /\ pkt.SYN /\ ~pkt.FIN /\ pkt.ACK
         [] k = 3 -> ~pkt.SYN /\ ~pkt.FIN /\ pkt.ACK
         [] k = 4 -> pkt.forward /\ ~pkt.SYN /\ pkt.FIN
         [] k = 5 -> ~pkt.forward /\ ~pkt.SYN /\ ~pkt.FIN /\ pkt.ACK
         [] k = 6 -> ~pkt.forward /\ ~pkt.SYN /\ pkt.FIN
         [] k = 7 -> pkt.forward /\ ~pkt.SYN /\ ~pkt.FIN /\ pkt.ACK
         [] OTHER -> FALSE

(***************************************************************************)
(* funcEntries: the per-flow timer array                                   *)
(***************************************************************************)
Callbacks == {"idleEvent", "activeEvent", "rearmEvent"}

\* An EventContext as the timer array reads it: its When field.
Context(w) == [When |-> w]

\* The zero funcEntry that make() produces.
ZeroEntry == [function |-> "nil", context |-> Context(0)]

RECURSIVE ZeroEntries(_)
ZeroEntries(n) == IF n <= 0 THEN <<>> ELSE Append(ZeroEntries(n - 1), ZeroEntry)

\* makeFuncEntries creating a single entry.
makeFuncEntriesOne == ZeroEntries(1)

\* makeFuncEntries()
makeFuncEntries == ZeroEntries(2)

\* funcEntries.addTimer(id, f, context): the array afterwards, or the panic.
addTimer(fep, id, f, context) ==
    LET n == Len(fep) - id + 1
        grown == IF id >= Len(fep) THEN fep \o ZeroEntries(n) ELSE fep
    IN  IF id >= Len(fep) /\ n < 0
        THEN [entries |-> fep, panic |-> "makeslice: len out of range"]
        ELSE IF id >= Len(grown)
        THEN [entries |-> grown, panic |-> "index out of range"]
        ELSE [entries |-> [grown EXCEPT ![id + 1] = [function |-> f, context |-> context]],
              panic |-> "none"]

\* A callback that re-arms its own timer: flow.AddTimer with the same id and
\* a time after the current one.
RearmEvent == "rearmEvent"

\* The timer array after expire has invoked fep[id].function(context, when).
Callback(fep, id, f, when) ==
    IF f = RearmEvent
    THEN addTimer(fep, id, f, Context(when + 1)).entries
    ELSE fep

\* The loop of funcEntries.expire from index i on (i counts from 1), fep the
\* array, next the earliest pending time so far, log the calls made so far.
RECURSIVE ExpireLoop(_, _, _, _, _)
ExpireLoop(fep, i, when, next, log) ==
    IF i > Len(fep) THEN [entries |-> fep, next |-> next, fired |-> log]
    ELSE LET v == fep[i]
         IN  IF v.context.When # 0
             THEN IF v.context.When <= when
                  THEN ExpireLoop([Callback(fep, i - 1, v.function, when) EXCEPT ![i].context.When = 0],
                                  i + 1, when, next,
                                  Append(log, [id |-> i - 1, function |-> v.function,
                                               context |-> v.context, now |-> when]))
                  ELSE IF next = 0 \/ v.context.When <= next
                       THEN ExpireLoop(fep, i + 1, when, v.context.When, log)
                       ELSE ExpireLoop(fep, i + 1, when, next, log)
             ELSE ExpireLoop(fep, i + 1, when, next, log)

\* expire comparing with < instead of <= (mutant).
RECURSIVE ExpireLoopStrict(_, _, _, _, _)
ExpireLoopStrict(fep, i, when, next, log) ==
    IF i > Len(fep) THEN [entries |-> fep, next |-> next, fired |-> log]
    ELSE LET v == fep[i]
         IN  IF v.context.When # 0
             THEN IF v.context.When < when
                  THEN ExpireLoopStrict([Callback(fep, i - 1, v.function, when) EXCEPT ![i].context.When = 0],
                                  i + 1, when, next,
                                  Append(log, [id |-> i - 1, function |-> v.function,
                                               context |-> v.context, now |-> when]))
                  ELSE IF next = 0 \/ v.context.When <= next
                       THEN ExpireLoopStrict(fep, i + 1, when, v.context.When, log)
                       ELSE ExpireLoopStrict(fep, i + 1, when, next, log)
             ELSE ExpireLoopStrict(fep, i + 1, when, next, log)

expireStrict(fep, when) == ExpireLoopStrict(fep, 1, when, 0, <<>>)

\* expire that does not clear the entries it fires (mutant).
RECURSIVE ExpireLoopNoClear(_, _, _, _, _)
ExpireLoopNoClear(fep, i, when, next, log) ==
    IF i > Len(fep) THEN [entries |-> fep, next |-> next, fired |-> log]
    ELSE LET v == fep[i]
         IN  IF v.context.When # 0
             THEN IF v.context.When <= when
                  THEN ExpireLoopNoClear(Callback(fep, i - 1, v.function, when), i + 1, when, next,
                                  Append(log, [id |-> i - 1, function |-> v.function,
                                               context |-> v.context, now |-> when]))
                  ELSE IF next = 0 \/ v.context.When <= next
                       THEN ExpireLoopNoClear(fep, i + 1, when, v.context.When, log)
                       ELSE ExpireLoopNoClear(fep, i + 1, when, next, log)
             ELSE ExpireLoopNoClear(fep, i + 1, when, next, log)

expireNoClear(fep, when) == ExpireLoopNoClear(fep, 1, when, 0, <<>>)

\* funcEntries.expire(when)
\* expire taking the last pending time as next, not the earliest.
RECURSIVE ExpireLoopNextLast(_, _, _, _, _)
ExpireLoopNextLast(fep, i, when, next, log) ==
    IF i > Len(fep) THEN [entries |-> fep, next |-> next, fired |-> log]
    ELSE LET v == fep[i]
         IN  IF v.context.When # 0
             THEN IF v.context.When <= when
                  THEN ExpireLoopNextLast(
                           [Callback(fep, i - 1, v.function, when) EXCEPT ![i].context.When = 0],
                           i + 1, when, next,
                           Append(log, [id |-> i - 1, function |-> v.function,
                                        context |-> v.context, now |-> when]))
                  ELSE ExpireLoopNextLast(fep, i + 1, when, v.context.When, log)
             ELSE ExpireLoopNextLast(fep, i + 1, when, next, log)

expireNextLast(fep, when) == ExpireLoopNextLast(fep, 1, when, 0, <<>>)

\* funcEntries.expire(when)
expire(fep, when) == ExpireLoop(fep, 1, when, 0, <<>>)

\* funcEntries.hasTimer(id)
hasTimer(fep, id) ==
    IF id >= Len(fep) \/ id < 0 THEN FALSE
    ELSE IF fep[id + 1].context.When = 0 THEN FALSE
    ELSE TRUE

NoTimerOp == [op |-> "none", id |-> 0, function |-> "nil", when |-> 0]
NoExpire == [valid |-> FALSE, now |-> 0, next |-> 0, nfired |-> 0]
Unarmed == [when |-> 0, function |-> "nil"]

TimerIdle ==
    /\ entries = makeFuncEntries
    /\ timerNow = 0
    /\ fired = <<>>
    /\ nextRet = 0
    /\ timerOp = NoTimerOp
    /\ prevExp = NoExpire
    /\ armed = [id \in 0..MaxTimerID |-> Unarmed]
    /\ timerPanic = "none"

\* flow.AddTimer -> funcEntries.addTimer(id, f, context)
AddTimer ==
    /\ timerPanic = "none"
    /\ \E id \in 0..MaxTimerID, f \in Callbacks, w \in 0..MaxTimerTime :
         LET r == addTimer(entries, id, f, Context(w))
         IN  /\ entries' = r.entries
             /\ timerPanic' = r.panic
             /\ timerOp' = [op |-> "add", id |-> id, function |-> f, when |-> w]
             /\ prevExp' = NoExpire
             /\ armed' = IF r.panic # "none" THEN armed
                         ELSE [armed EXCEPT ![id] = IF w = 0 THEN Unarmed
                                                    ELSE [when |-> w, function |-> f]]
             /\ fired' = <<>>
             /\ nextRet' = 0
             /\ UNCHANGED timerNow

\* FlowTable.Expire -> funcEntries.expire(when); the packet clock does not go back.
Expire ==
    /\ timerPanic = "none"
    /\ \E t \in 0..MaxTimerTime :
         /\ t >= timerNow
         /\ LET r == expire(entries, t)
            IN  /\ entries' = r.entries
                /\ fired' = r.fired
                /\ nextRet' = r.next
         /\ timerNow' = t
         /\ timerOp' = [op |-> "expire", id |-> 0, function |-> "nil", when |-> t]
         /\ prevExp' = IF timerOp.op = "expire"
                       THEN [valid |-> TRUE, now |-> timerNow, next |-> nextRet,
                             nfired |-> Len(fired)]
                       ELSE NoExpire
         /\ armed' = [id \in 0..MaxTimerID |->
                        IF armed[id].when # 0 /\ armed[id].when <= t THEN Unarmed
                        ELSE armed[id]]
         /\ UNCHANGED timerPanic

(***************************************************************************)
(* fivetuple: the canonical flow key of a packet                           *)
(***************************************************************************)
IPv4Len == 4
PortLen == 2

\* Byte strings of length n with at most one nonzero byte.
Sparse(n) == {[i \in 1..n |-> IF i = k THEN v ELSE 0] : k \in 1..n, v \in 0..MaxByte}

\* transport.LayerType(): the layer types fivetuple names and one it does not
LayerTypes == {"TCP", "UDP", "ICMPv4", "ICMPv6", "SCTP"}

\* layers.LayerClassIPControl.Contains(proto)
IPControl(proto) == proto \in {"ICMPv4", "ICMPv6"}

\* The packets: raw endpoints of the network and of the transport flow.
KeyPackets ==
    [srcIP : Sparse(IPv4Len), dstIP : Sparse(IPv4Len),
     srcPort : Sparse(PortLen), dstPort : Sparse(PortLen), proto : LayerTypes]

\* bytes.Compare(a, b) < 0 on byte strings of equal length
BytesLess(a, b) ==
    \E i \in 1..Len(a) : a[i] < b[i] /\ \A j \in 1..(i - 1) : a[j] = b[j]

\* Endpoint.LessThan on endpoints of one type
LessThan(a, b) == BytesLess(a, b)

\* the switch on proto: the IANA protocol number, zero for other transports
ProtoByte(proto) ==
    CASE proto = "TCP" -> 6
      [] proto = "UDP" -> 17
      [] proto = "ICMPv4" -> 1
      [] proto = "ICMPv6" -> 58
      [] OTHER -> 0

\* fiveTuple4: src 4, dst 4, proto 1, src port 2, dst port 2
FiveTuple4(srcIP, dstIP, protoB, srcPort, dstPort) ==
    srcIP \o dstIP \o <<protoB>> \o srcPort \o dstPort

\* The accessors of fiveTuple4.
KeySrcIP(t) == SubSeq(t, 1, 4)
KeyDstIP(t) == SubSeq(t, 5, 8)
KeyProto(t) == t[9]
KeySrcPort(t) == SubSeq(t, 10, 11)
KeyDstPort(t) == SubSeq(t, 12, 13)

\* fivetuple swapping the addresses but never the ports.
fivetupleNoPortSwap(pkt) ==
    LET swapIP == LessThan(pkt.dstIP, pkt.srcIP)
        swapEq == pkt.srcIP = pkt.dstIP /\ LessThan(pkt.srcPort, pkt.dstPort)
        swap == swapIP \/ (~swapIP /\ swapEq)
        srcIP == IF swap THEN pkt.dstIP ELSE pkt.srcIP
        dstIP == IF swap THEN pkt.srcIP ELSE pkt.dstIP
    IN  IF Len(srcIP) = IPv4Len
        THEN [key |-> FiveTuple4(srcIP, dstIP, ProtoByte(pkt.proto), pkt.srcPort, pkt.dstPort),
              forward |-> ~swap]
        ELSE [key |-> <<>>, forward |-> FALSE]

\* fivetuple: addresses (and, unless IP control, ports) swapped when
\* dstIP < srcIP, or when the addresses are equal and srcPort < dstPort.
fivetuple(pkt) ==
    LET swapIP == LessThan(pkt.dstIP, pkt.srcIP)
        swapEq == pkt.srcIP = pkt.dstIP /\ LessThan(pkt.srcPort, pkt.dstPort)
        swap == swapIP \/ (~swapIP /\ swapEq)
        swapPorts == swap /\ ~IPControl(pkt.proto)
        srcIP == IF swap THEN pkt.dstIP ELSE pkt.srcIP
        dstIP == IF swap THEN pkt.srcIP ELSE pkt.dstIP
        srcPortR == IF swapPorts THEN pkt.dstPort ELSE pkt.srcPort
        dstPortR == IF swapPorts THEN pkt.srcPort ELSE pkt.dstPort
    IN  IF Len(srcIP) = IPv4Len
        THEN [key |-> FiveTuple4(srcIP, dstIP, ProtoByte(pkt.proto), srcPortR, dstPortR),
              forward |-> ~swap]
        ELSE [key |-> <<>>, forward |-> FALSE]

\* The packet of the opposite direction of the same conversation.
Reversed(pkt) ==
    [srcIP |-> pkt.dstIP, dstIP |-> pkt.srcIP,
     srcPort |-> pkt.dstPort, dstPort |-> pkt.srcPort, proto |-> pkt.proto]

NoKeyPacket == [srcIP |-> <<>>, dstIP |-> <<>>, srcPort |-> <<>>, dstPort |-> <<>>, proto |-> "none"]
NoKey == [done |-> FALSE, key |-> <<>>, forward |-> FALSE, rkey |-> <<>>, rforward |-> FALSE]

KeyIdle == keyPkt = NoKeyPacket /\ keyRes = NoKey

\* The decoder reads a packet.
KeyDecode ==
    /\ keyPkt = NoKeyPacket
    /\ keyPkt' \in KeyPackets
    /\ keyRes' = NoKey

\* The decoder computes the key of the packet; the key of the reversed packet
\* is computed alongside.
KeyCompute ==
    /\ keyPkt # NoKeyPacket /\ ~keyRes.done
    /\ LET r == fivetuple(keyPkt)
           q == fivetuple(Reversed(keyPkt))
       IN  keyRes' = [done |-> TRUE, key |-> r.key, forward |-> r.forward,
                      rkey |-> q.key, rforward |-> q.forward]
    /\ UNCHANGED keyPkt

\* The packet is handed on with its key; the decoder is ready for the next one.
KeyHandOn ==
    /\ keyRes.done
    /\ keyPkt' = NoKeyPacket
    /\ keyRes' = NoKey

(***************************************************************************)
(* RegisterTimer and the timer arrays of new flows                         *)
(***************************************************************************)
\* RegisterTimer(): hands out timerMaxID and increments it
RegisterTimer ==
    /\ timerPanic = "none"
    /\ timerMaxID <= MaxTimerID
    /\ timerMaxID' = timerMaxID + 1
    /\ UNCHANGED relPanic

\* A new flow gets its timer array from makeFuncEntries().
NewTimers ==
    /\ timerPanic = "none"
    /\ timerOp # NoTimerOp
    /\ entries' = makeFuncEntries
    /\ fired' = <<>>
    /\ nextRet' = 0
    /\ timerOp' = NoTimerOp
    /\ prevExp' = NoExpire
    /\ armed' = [id \in 0..MaxTimerID |-> Unarmed]
    /\ UNCHANGED <<timerNow, timerPanic>>

\* flow.AddTimer with a registered TimerID
AddRegisteredTimer == AddTimer /\ timerOp'.id < timerMaxID

(***************************************************************************)
(* multiPacketBuffer.release                                               *)
(***************************************************************************)
\* The loop of release over mpb.buffers from index k on: newlist has room for
\* size buffers, kept are the buffers copied to it so far, freed counts the
\* buffers dropped.
RECURSIVE ReleaseLoop(_, _, _, _, _)
ReleaseLoop(bufs, k, size, kept, freed) ==
    IF k > Len(bufs) THEN [buffers |-> kept, freed |-> freed, panic |-> "none"]
    ELSE IF inUse[bufs[k]] # 0 \/ freed = AllocSize
         THEN IF Len(kept) >= size
              THEN [buffers |-> bufs, freed |-> 0, panic |-> "index out of range"]
              ELSE ReleaseLoop(bufs, k + 1, size, Append(kept, bufs[k]), freed)
         ELSE ReleaseLoop(bufs, k + 1, size, kept, freed + 1)

\* release(): the pool's buffers and the number freed, or the panic
release(bufs) ==
    IF Len(bufs) - AllocSize < 0
    THEN [buffers |-> bufs, freed |-> 0, panic |-> "makeslice: len out of range"]
    ELSE ReleaseLoop(bufs, 1, Len(bufs) - AllocSize, <<>>, 0)

\* multiPacketBuffer.release, called while no Pop is running
Release ==
    /\ relPanic = "none"
    /\ \A p \in producers : prod[p].pc \in {"idle", "held"}
    /\ LET r == release(buffers)
       IN  /\ relPanic' = r.panic
           /\ buffers' = r.buffers
           /\ numFree' = numFree - r.freed
    /\ UNCHANGED <<producers, inUse, refcnt, mutex, waiters, woken, batch, emptyCh, fullCh,
                   ringStat, prod, cons, retained, holder, cleared, timerMaxID>>

(***************************************************************************)
(* Shutdown of the ring                                                    *)
(***************************************************************************)
RingOpen == closed = FALSE /\ atClose = <<>> /\ afterClose = <<>> /\ eos = FALSE

\* After package initialisation: timerIdle and timerActive are registered.
RegIdle == timerMaxID = Len(makeFuncEntries) /\ relPanic = "none"

ExtIdle == KeyIdle /\ RingOpen /\ RegIdle

\* ring.close by the producing stage once it has finished its in-flight work:
\* close(smpbr.full)
CloseRing ==
    /\ ~closed
    /\ \A p \in producers : prod[p].pc = "idle"
    /\ closed' = TRUE
    /\ atClose' = fullCh
    /\ UNCHANGED <<afterClose, eos>>

\* ring.popFull receiving a batch (ok = true), before or after the close
PopFullOk ==
    /\ PopFull
    /\ afterClose' = IF closed THEN Append(afterClose, Head(fullCh)) ELSE afterClose
    /\ UNCHANGED <<closed, atClose, eos>>

\* popFull reporting the end of the stream as soon as the ring is closed.
PopFullClosedEarly ==
    /\ cons.pc = "idle"
    /\ closed
    /\ eos' = TRUE
    /\ UNCHANGED <<closed, atClose, afterClose>>

\* ring.popFull on the closed and drained channel: ret = nil, ok = false
PopFullClosed ==
    /\ cons.pc = "idle"
    /\ closed /\ fullCh = <<>>
    /\ eos' = TRUE
    /\ UNCHANGED <<closed, atClose, afterClose>>

TcpIdle ==
    /\ flow = NewTcpFlow
    /\ exported = <<>>
    /\ pktWhen = 0
    /\ nEvents = 0
    /\ lastPkt = NoPacket
    /\ seen = SeenNothing
    /\ scen = 0

\* The flow table delivers one packet event to the flow (FlowTable.Event ->
\* tcpFlow.Event); packet timestamps do not decrease.
Deliver ==
    /\ nEvents < MaxEvents
    /\ \E pkt \in Packets, w \in 0..MaxTime :
         /\ w >= pktWhen
         /\ LET r == TcpEvent(flow, pkt, w)
            IN  /\ flow' = r.flow
                /\ exported' = exported \o r.out
         /\ pktWhen' = w
         /\ nEvents' = nEvents + 1
         /\ lastPkt' = pkt
         /\ seen' = Observe(seen, pkt, flow.active)
         /\ scen' = IF scen >= 0 /\ scen < ScenarioLen /\ ScenarioMatch(scen + 1, pkt)
                    THEN scen + 1 ELSE -1
    /\ UNCHANGED <<timerVars, poolVars, extVars>>

TcpInit == TcpIdle /\ TimerIdle /\ PoolIdle /\ ExtIdle
TcpNext == Deliver
TcpSpec == TcpInit /\ [][TcpNext]_vars

TimerInit == TimerIdle /\ TcpIdle /\ PoolIdle /\ ExtIdle
TimerNext ==
    \/ AddTimer /\ UNCHANGED <<tcpVars, poolVars, extVars>>
    \/ Expire /\ UNCHANGED <<tcpVars, poolVars, extVars>>
TimerSpec == TimerInit /\ [][TimerNext]_vars

Bits(f) == <<f.srcFIN, f.dstFIN, f.srcACK, f.dstACK>>

\* C8: graceful teardown. Over RST-free packet sequences the flow has exported
\* (once, reason end) exactly when the packets so far showed a FIN in each
\* direction and, after each FIN, an ACK from the opposite direction; the
\* export carries the timestamp of the packet that completed the teardown, so
\* it happens on that packet and on no earlier one. In the scenario SYN,
\* SYN-ACK, data, FIN, ACK, FIN, ACK nothing is exported before the 7th packet
\* and the 7th exports at its own timestamp.
C8_GracefulTeardown ==
    /\ ~seen.rst =>
          /\ Len(exported) = (IF TornDown(seen) THEN 1 ELSE 0)
          /\ flow.active = ~TornDown(seen)
          /\ (TornDown(seen) /\ ~seen.post) =>
                exported[1] = [reason |-> FlowEndReasonEnd, when |-> pktWhen]
    /\ (scen >= 0 /\ scen < ScenarioLen) => (exported = <<>> /\ flow.active)
    /\ scen = ScenarioLen =>
          /\ exported = <<[reason |-> FlowEndReasonEnd, when |-> pktWhen]>>
          /\ ~flow.active

C8_Witness ==
    scen = ScenarioLen /\ Len(exported) = 1 /\ pktWhen > 0

\* C9: an RST delivered to an active flow exports it during that event with
\* reason end at the RST's timestamp and leaves the four teardown bits as
\* they were.
C9_RstExports ==
    [][(nEvents' = nEvents + 1 /\ flow.active /\ lastPkt'.RST) =>
          /\ exported' = Append(exported, [reason |-> FlowEndReasonEnd, when |-> pktWhen'])
          /\ ~flow'.active
          /\ Bits(flow') = Bits(flow)]_vars

C9_Witness ==
    /\ lastPkt.RST /\ lastPkt.FIN /\ lastPkt.ACK /\ ~seen.post
    /\ ~flow.active /\ flow.dstFIN /\ ~flow.srcFIN
    /\ exported = <<[reason |-> FlowEndReasonEnd, when |-> pktWhen]>>

\* C10: once the flow has exported, further events change none of the four
\* teardown bits and export nothing, so a flow exports at most once.
C10_ExportIdempotent ==
    /\ [](Len(exported) <= 1)
    /\ [][~flow.active => (Bits(flow') = Bits(flow) /\ exported' = exported
                           /\ ~flow'.active)]_vars

C10_Witness ==
    /\ seen.post /\ ~flow.active /\ Len(exported) = 1
    /\ lastPkt.RST /\ lastPkt.FIN /\ lastPkt.ACK /\ nEvents >= 3

\* The pool with the one producer the pipeline has (the decoder).
Init == PoolIdle /\ TcpIdle /\ TimerIdle /\ ExtIdle
Next == PoolNext /\ UNCHANGED <<tcpVars, timerVars, extVars>>
Spec == Init /\ [][Next]_vars

\* The pool with one or with two concurrent producers (no stage retains buffers).
MPInit == producers \in {{1}, {1, 2}} /\ PoolNew /\ TcpIdle /\ TimerIdle /\ ExtIdle
MPNext == PipelineNext /\ UNCHANGED <<tcpVars, timerVars, extVars>>
MPSpec == MPInit /\ [][MPNext]_vars

\* The ring from start to shutdown: one producer, the consumer, the close.
RingInit == PoolIdle /\ TcpIdle /\ TimerIdle /\ ExtIdle
RingNext ==
    \/ /\ ~closed
       /\ Replenish \/ Producer(1)
       /\ UNCHANGED <<tcpVars, timerVars, extVars>>
    \/ PopFullOk /\ UNCHANGED <<tcpVars, timerVars, keyVars, regVars>>
    \/ /\ RecycleEmpty \/ RecycleBegin \/ RecycleOne \/ RecycleFree \/ RecycleSignal \/ RecycleEnd
       /\ UNCHANGED <<tcpVars, timerVars, extVars>>
    \/ CloseRing /\ UNCHANGED <<tcpVars, timerVars, poolVars, keyVars, regVars>>
    \/ PopFullClosed /\ UNCHANGED <<tcpVars, timerVars, poolVars, keyVars, regVars>>
RingSpec == RingInit /\ [][RingNext]_vars

\* Timer registration, new flows and their timers.
RegInit == TimerIdle /\ TcpIdle /\ PoolIdle /\ ExtIdle
RegNext ==
    \/ RegisterTimer /\ UNCHANGED <<tcpVars, timerVars, poolVars, keyVars, ringVars>>
    \/ NewTimers /\ UNCHANGED <<tcpVars, poolVars, extVars>>
    \/ AddRegisteredTimer /\ UNCHANGED <<tcpVars, poolVars, extVars>>
RegSpec == RegInit /\ [][RegNext]_vars

\* The pool with release: one producer, the consumer, and release between
\* Pops. New buffers are numbered by their position in mpb.buffers, so the
\* pool is replenished only while it holds the buffers 1..len.
ReleaseInit == PoolIdle /\ TcpIdle /\ TimerIdle /\ ExtIdle
ReleaseNext ==
    \/ /\ relPanic = "none"
       /\ \/ Replenish /\ Range(buffers) = 1..Len(buffers)
          \/ Producer(1)
          \/ Consumer
       /\ UNCHANGED <<tcpVars, timerVars, extVars>>
    \/ Release /\ UNCHANGED <<tcpVars, timerVars, keyVars, ringVars>>
ReleaseSpec == ReleaseInit /\ [][ReleaseNext]_vars

\* The decoder computing flow keys.
KeyInit == KeyIdle /\ RingOpen /\ RegIdle /\ TcpIdle /\ TimerIdle /\ PoolIdle
KeyNext ==
    \/ KeyDecode /\ UNCHANGED <<tcpVars, timerVars, poolVars, ringVars, regVars>>
    \/ KeyCompute /\ UNCHANGED <<tcpVars, timerVars, poolVars, ringVars, regVars>>
    \/ KeyHandOn /\ UNCHANGED <<tcpVars, timerVars, poolVars, ringVars, regVars>>
KeySpec == KeyInit /\ [][KeyNext]_vars

(***************************************************************************)
(* Timer claims                                                            *)
(***************************************************************************)
FiredFor(log, id) == {k \in 1..Len(log) : log[k].id = id}

ExpireStep == timerOp'.op = "expire" /\ timerPanic = "none"
AddStep == timerOp'.op = "add" /\ timerPanic = "none"

\* C5: over non-decreasing expire times, a timer added with nonzero when = w
\* and not overwritten since is left alone (not fired, still armed) by every
\* expire(t) with t < w and fires exactly once, with its stored callback and
\* context and the current time, in the first expire(t) with t >= w.
C5_TimerFiresAtFirstDue ==
    [][ExpireStep =>
         /\ timerNow' >= timerNow
         /\ \A id \in 0..MaxTimerID :
              armed[id].when # 0 =>
                IF armed[id].when <= timerNow'
                THEN /\ Cardinality(FiredFor(fired', id)) = 1
                     /\ \A k \in FiredFor(fired', id) :
                          fired'[k] = [id |-> id, function |-> armed[id].function,
                                       context |-> Context(armed[id].when),
                                       now |-> timerNow']
                ELSE /\ FiredFor(fired', id) = {}
                     /\ armed'[id] = armed[id]
                     /\ hasTimer(entries', id)]_vars

\* A timer with when = 2 survived expire(1) and fired in the following expire(2).
C5_Witness ==
    /\ timerOp.op = "expire" /\ timerNow = 2
    /\ prevExp.valid /\ prevExp.now = 1 /\ prevExp.nfired = 0 /\ prevExp.next = 2
    /\ \E k \in 1..Len(fired) : fired[k].context.When = 2 /\ fired[k].now = 2

Eligible(e, t) == e.context.When # 0 /\ e.context.When <= t

\* C6: expire(t) fires every eligible timer (nonzero when <= t) once and
\* clears it, so no eligible timer is left after the call; a second expire(t)
\* right after it invokes no callback and returns the same next.
C6_ExpireIdempotent ==
    /\ [](timerOp.op = "expire" =>
            /\ \A i \in 1..Len(entries) : ~Eligible(entries[i], timerNow)
            /\ \A k \in 1..Len(fired) :
                 /\ ~hasTimer(entries, fired[k].id)
                 /\ FiredFor(fired, fired[k].id) = {k}
            /\ (prevExp.valid /\ prevExp.now = timerNow) =>
                 (fired = <<>> /\ nextRet = prevExp.next))
    /\ [][ExpireStep =>
            \A i \in 1..Len(entries) :
                Eligible(entries[i], timerNow') =>
                    /\ Cardinality(FiredFor(fired', i - 1)) = 1
                    /\ entries'[i].context.When = 0]_vars

\* expire(t) fired something and left a pending timer; expire(t) again fired nothing.
C6_Witness ==
    /\ timerOp.op = "expire" /\ prevExp.valid /\ prevExp.now = timerNow
    /\ prevExp.nfired >= 2 /\ prevExp.next # 0
    /\ fired = <<>> /\ nextRet = prevExp.next

\* C7: addTimer(id, f, context) never fails, for every id >= 0 and every
\* length of the array: afterwards id is in range, entry id holds
\* (f, context), every other entry that existed is unchanged, and hasTimer(id)
\* is true iff context.When is nonzero.
C7_AddTimerAlwaysStores ==
    [][AddStep =>
         /\ timerPanic' = "none"
         /\ Len(entries') > timerOp'.id
         /\ entries'[timerOp'.id + 1] = [function |-> timerOp'.function,
                                         context |-> Context(timerOp'.when)]
         /\ \A i \in 1..Len(entries) :
              i # timerOp'.id + 1 => entries'[i] = entries[i]
         /\ hasTimer(entries', timerOp'.id) <=> (timerOp'.when # 0)]_vars

(***************************************************************************)
(* Pool claims                                                             *)
(***************************************************************************)
InUseBufs == {b \in Range(buffers) : inUse[b] = 1}
FreeBufs == {b \in Range(buffers) : inUse[b] = 0}
HandedOut == UNION {Live(k) : k \in Batches} \cup retained

\* C1: whatever the number of concurrent producers, between the Pop that
\* hands out a buffer (storing inUse = 1) and the recycle that clears the flag
\* no other Pop hands out the same buffer: no buffer is handed out to two
\* batches at the same time.
C1_ExclusiveAnyProducers == Exclusive

\* The single-caller baseline: with one caller of Pop no buffer is handed out
\* to two batches, and every buffer a batch carries has its in-use flag set
\* until that batch's stage recycles it.
SingleProducerExclusive ==
    Cardinality(producers) = 1 =>
        /\ Exclusive
        /\ \A k \in Batches : \A b \in Live(k) : inUse[b] = 1

\* C2: per hand-out by Pop the in-use flag of a buffer is cleared at most
\* once (a set flag has not been cleared since the hand-out, a clear flag was
\* cleared once or never handed out), and a buffer does not stay in use once
\* the stages are done with it: every buffer in use is still carried by a
\* batch or retained by a stage that will recycle it.
C2_ClearedOncePerPop ==
    /\ \A b \in BufIds :
         /\ cleared[b] <= 1
         /\ inUse[b] = 1 => cleared[b] = 0
    /\ \A b \in InUseBufs : b \in HandedOut
    /\ (\A k \in Batches : Live(k) = {}) /\ retained = {} => InUseBufs = {}

\* A batch went through finalizeWritten and a batch recycle: some buffers were
\* cleared by the single-buffer recycle, one by the batch recycle.
C2_Witness ==
    /\ cons.pc = "rec" /\ cons.idx = 2 /\ Len(batch[cons.b].bufs) = 1
    /\ \E b \in BufIds : cleared[b] = 1 /\ inUse[b] = 0 /\ b \notin Range(batch[cons.b].bufs)
    /\ cleared[batch[cons.b].bufs[1]] = 1

FreeInProgress ==
    \/ cons.pc \in {"rec", "sig"}
    \/ holder # "idle"
    \/ \E p \in producers : prod[p].pc \in WrittenPcs

\* C3: a Pop that blocks returns once recyclers have freed enough buffers
\* that the free count is at least batchSize: no Pop sits in cond.Wait,
\* unsignalled, with numFree raised to batchSize or more by free alone (the
\* pool has not grown since the Pop decided to wait) and no free left in
\* progress that could still signal it; and low was called before any wait.
C3_BlockedPopReturns ==
    \A p \in producers :
        /\ prod[p].pc \in {"wait", "waiting"} => prod[p].low
        /\ (prod[p].pc = "waiting" /\ p \notin woken /\ ~prod[p].grown /\ ~FreeInProgress)
               => numFree < BatchSize

Quiescent ==
    /\ \A p \in producers : prod[p].pc \in {"idle", "held"}
    /\ cons.pc \in {"idle", "got"}
    /\ holder = "idle"

\* C4: whenever no Pop and no recycle is in progress, numFree is the number
\* of pool buffers whose in-use flag is 0, and the buffers whose flag is 1 are
\* exactly those handed out by Pop and not recycled since.
C4_FreeCountAccounting ==
    Quiescent =>
        /\ numFree = Cardinality(FreeBufs)
        /\ InUseBufs = HandedOut
        /\ numFree + Cardinality(HandedOut) = Len(buffers)

\* After two replenishes, pops and a recycle: one batch out, the rest free.
C4_Witness ==
    /\ Quiescent /\ Len(buffers) = 2 * AllocSize
    /\ numFree = BatchSize /\ Cardinality(HandedOut) = BatchSize
    /\ \E b \in FreeBufs : cleared[b] = 1
    /\ retained # {}

(***************************************************************************)
(* Flow key claims                                                         *)
(***************************************************************************)
\* The packet is its own reverse: equal addresses and equal ports.
SelfReversed(pkt) == pkt.srcIP = pkt.dstIP /\ pkt.srcPort = pkt.dstPort

\* C11 (as claimed): for every packet whose protocol is not IP control, the
\* packet and its reverse get the same key and opposite forward bits, equal
\* addresses and equal ports included.
C11_ReversedSameKey ==
    (keyRes.done /\ ~IPControl(keyPkt.proto)) =>
        /\ keyRes.key = keyRes.rkey
        /\ keyRes.forward # keyRes.rforward

\* C11 (amended): for every packet whose protocol is not IP control, the
\* packet and its reverse get the same key; their forward bits differ unless
\* the packet is its own reverse (equal addresses and equal ports), in which
\* case both are forward.
C11_ReversedSameKeyAmended ==
    (keyRes.done /\ ~IPControl(keyPkt.proto)) =>
        /\ keyRes.key = keyRes.rkey
        /\ IF SelfReversed(keyPkt)
           THEN keyRes.forward /\ keyRes.rforward
           ELSE keyRes.forward # keyRes.rforward

\* A TCP packet between two ports of one address, and one between two
\* addresses whose ports are in the opposite order: both keys were swapped.
C11_Witness ==
    /\ keyRes.done /\ keyPkt.proto = "TCP"
    /\ keyPkt.srcPort # keyPkt.dstPort
    /\ keyRes.key = keyRes.rkey /\ ~keyRes.forward /\ keyRes.rforward
    /\ keyPkt.srcIP = keyPkt.dstIP \/ LessThan(keyPkt.dstPort, keyPkt.srcPort)

\* C12: every key has (srcIP, srcPort) <= (dstIP, dstPort) in the
\* lexicographic byte order of its own fields.
C12_KeyOrdered ==
    keyRes.done =>
        LET k == keyRes.key
        IN  \/ BytesLess(KeySrcIP(k), KeyDstIP(k))
            \/ /\ KeySrcIP(k) = KeyDstIP(k)
               /\ ~BytesLess(KeyDstPort(k), KeySrcPort(k))

(***************************************************************************)
(* Ring claims                                                             *)
(***************************************************************************)
\* Number of times batch k is queued in channel ch.
Occ(ch, k) == Cardinality({i \in 1..Len(ch) : ch[i] = k})

\* The stages holding batch k: producers between popEmpty and finalize, the
\* consumer between popFull and recycle.
HeldBy(k) ==
    {p \in producers : prod[p].pc # "idle" /\ prod[p].b = k}
        \cup (IF cons.pc # "idle" /\ cons.b = k THEN {0} ELSE {})

\* C13: every batch of the ring is in exactly one place (ring.empty, ring.full
\* or held by one stage), so the places hold RingDepth batches in all, and a
\* stage about to send on ring.full or on ring.empty finds room in the channel.
C13_RingSendsNeverBlock ==
    /\ \A k \in Batches : Occ(emptyCh, k) + Occ(fullCh, k) + Cardinality(HeldBy(k)) = 1
    /\ Len(emptyCh) + Len(fullCh) + Cardinality(UNION {HeldBy(k) : k \in Batches}) = RingDepth
    /\ \A p \in producers : prod[p].pc \in {"held"} \cup WrittenPcs => Len(fullCh) < RingDepth
    /\ cons.pc # "idle" => Len(emptyCh) < RingDepth

\* ring.full holds all batches but the one the producer is about to finalize.
C13_Witness ==
    /\ Len(fullCh) = RingDepth - 1 /\ emptyCh = <<>>
    /\ prod[1].pc = "held" /\ cons.pc = "idle"

\* C14: after close, popFull delivers the batches that were queued in
\* ring.full at the close, in the order they were pushed, and reports the end
\* of the stream only when all of them have been delivered and never delivers
\* after that; no batch is lost, and the consumer's recycle of these batches
\* finds room in ring.empty, where all batches end up.
C14_OrderlyShutdown ==
    /\ closed => afterClose \o fullCh = atClose
    /\ eos => closed /\ fullCh = <<>> /\ afterClose = atClose
    /\ closed /\ cons.pc # "idle" => Len(emptyCh) < RingDepth
    /\ eos /\ cons.pc = "idle" => Len(emptyCh) = RingDepth

\* The ring was closed with all its batches queued; they were delivered and
\* recycled, and popFull reported the end of the stream.
C14_Witness ==
    /\ eos /\ Len(atClose) = RingDepth /\ afterClose = atClose
    /\ cons.pc = "idle" /\ Len(emptyCh) = RingDepth

(***************************************************************************)
(* More tcpFlow claims                                                     *)
(***************************************************************************)
\* A non-RST packet is delivered to the active flow.
TeardownStep == nEvents' = nEvents + 1 /\ flow.active /\ ~lastPkt'.RST

AckBits(f) == <<f.srcACK, f.dstACK>>

\* C15 (as claimed): on a non-RST packet of an active flow the FIN and ACK
\* steps exclude each other: a packet with FIN records no ACK bit, also when
\* it carries ACK; an ACK bit is recorded only by a packet without FIN.
C15_FinAckExclusive ==
    [][TeardownStep =>
          /\ lastPkt'.FIN => AckBits(flow') = AckBits(flow)
          /\ AckBits(flow') # AckBits(flow) => ~lastPkt'.FIN]_vars

\* C15 (amended): on a non-RST packet of an active flow the FIN and ACK steps
\* are independent: a packet with FIN records the sender's FIN bit (srcFIN
\* for forward, dstFIN for reverse); a packet with ACK, with or without FIN,
\* records the acknowledging bit (dstACK for forward, srcACK for reverse)
\* exactly when the opposite side's FIN was recorded by an earlier packet;
\* the other two bits do not change.
C15_FinAckIndependent ==
    [][TeardownStep =>
          IF lastPkt'.forward
          THEN /\ flow'.srcFIN = (flow.srcFIN \/ lastPkt'.FIN)
               /\ flow'.dstACK = (flow.dstACK \/ (lastPkt'.ACK /\ flow.dstFIN))
               /\ flow'.dstFIN = flow.dstFIN /\ flow'.srcACK = flow.srcACK
          ELSE /\ flow'.dstFIN = (flow.dstFIN \/ lastPkt'.FIN)
               /\ flow'.srcACK = (flow.srcACK \/ (lastPkt'.ACK /\ flow.srcFIN))
               /\ flow'.srcFIN = flow.srcFIN /\ flow'.dstACK = flow.dstACK]_vars

\* FIN (forward), then FIN+ACK (reverse): the second packet recorded both the
\* reverse FIN and the acknowledgement of the forward FIN.
C15_Witness ==
    /\ nEvents = 2 /\ flow.active
    /\ lastPkt.FIN /\ lastPkt.ACK /\ ~lastPkt.RST /\ ~lastPkt.forward
    /\ flow.srcFIN /\ flow.dstFIN /\ flow.srcACK /\ ~flow.dstACK

(***************************************************************************)
(* More timer claims                                                       *)
(***************************************************************************)
\* The indices of the entries with a scheduled time.
Pending(fep) == {i \in 1..Len(fep) : fep[i].context.When # 0}

\* The earliest scheduled time of the array, zero when nothing is scheduled.
EarliestWhen(fep) ==
    IF Pending(fep) = {} THEN 0
    ELSE CHOOSE w \in {fep[i].context.When : i \in Pending(fep)} :
             \A i \in Pending(fep) : w <= fep[i].context.When

\* C16: expire(now) returns the minimum scheduled time over the entries still
\* pending after the call, all of which are later than now, and zero iff none
\* is pending; entries with when > now are left unchanged and their callbacks
\* are not invoked.
C16_NextIsEarliestPending ==
    /\ [](timerOp.op = "expire" =>
            /\ nextRet = EarliestWhen(entries)
            /\ nextRet = 0 <=> Pending(entries) = {}
            /\ \A i \in Pending(entries) : entries[i].context.When > timerNow)
    /\ [][ExpireStep =>
            \A i \in 1..Len(entries) :
                entries[i].context.When > timerNow' =>
                    /\ entries'[i] = entries[i]
                    /\ FiredFor(fired', i - 1) = {}]_vars

\* expire(1) fired a timer and left two later ones pending, which it returned
\* as next.
C16_Witness ==
    /\ timerOp.op = "expire" /\ timerNow = 1 /\ fired # <<>>
    /\ Cardinality(Pending(entries)) >= 2 /\ nextRet = 2

\* C20: a timer re-armed from inside its own callback during expire(now)
\* (addTimer with the same id and a time after now) is still scheduled when
\* expire returns: hasTimer(id) holds and the returned next is nonzero and at
\* most the new time.
C20_RearmSurvivesExpire ==
    timerOp.op = "expire" =>
        \A k \in 1..Len(fired) :
            fired[k].function = RearmEvent =>
                /\ hasTimer(entries, fired[k].id)
                /\ nextRet # 0 /\ nextRet <= timerNow + 1

\* C17 (as claimed): the timer array of a flow is at least as long as the
\* number of TimerIDs registered so far.
C17_ArrayCoversRegistered == Len(entries) >= timerMaxID

\* C17 (amended): the timer array of a flow always has at least the two
\* entries of the built-in TimerIDs (idle = 0, active = 1) and covers every
\* id that addTimer has stored in it; it can be shorter than the number of
\* registered TimerIDs.
C17_ArrayCoversBuiltinAndStored ==
    /\ Len(entries) >= 2
    /\ timerMaxID >= 2
    /\ (timerOp.op = "add" /\ timerPanic = "none") => Len(entries) > timerOp.id
    /\ \A id \in 0..MaxTimerID : armed[id].when # 0 => Len(entries) > id

\* Three TimerIDs are registered; addTimer for id 2 has grown the array to 3.
C17_Witness ==
    /\ timerMaxID = 3 /\ timerPanic = "none"
    /\ timerOp.op = "add" /\ timerOp.id = 2 /\ Len(entries) = 3

(***************************************************************************)
(* release                                                                 *)
(***************************************************************************)
\* A call of release on a replenished pool: it ended in a panic or it dropped
\* buffers.
ReleaseStep ==
    /\ relPanic = "none" /\ Len(buffers) >= AllocSize
    /\ relPanic' # "none" \/ Len(buffers') < Len(buffers)

Removed == Range(buffers) \ Range(buffers')

\* C18: release, called with no Pop running, completes without failure in
\* every state of the pool, removes only buffers whose in-use flag is 0, keeps
\* every buffer in use, removes at most allocSize buffers and decreases
\* numFree by the number of buffers removed.
C18_ReleaseDropsOnlyFree ==
    [][ReleaseStep =>
          /\ relPanic' = "none"
          /\ \A b \in Removed : inUse[b] = 0
          /\ \A b \in Range(buffers) : inUse[b] = 1 => b \in Range(buffers')
          /\ Cardinality(Removed) <= AllocSize
          /\ numFree' = numFree - Cardinality(Removed)]_vars

(***************************************************************************)
(* Pop with a single caller                                                *)
(***************************************************************************)
\* The elements of a batch are pairwise distinct.
Distinct(bufs) == \A i, j \in 1..Len(bufs) : i # j => bufs[i] # bufs[j]

\* C19: with a single caller of Pop, under every interleaving with batch
\* recycles, single-buffer recycles and their free calls, a batch returned by
\* Pop holds exactly BatchSize pairwise distinct buffers, all with inUse = 1;
\* each had inUse = 0 when Pop took it; and numFree is never negative.
C19_PopReturnsFullBatch ==
    /\ [](/\ numFree >= 0
          /\ \A p \in producers :
               prod[p].pc = "held" =>
                   /\ Len(batch[prod[p].b].bufs) = BatchSize
                   /\ Distinct(batch[prod[p].b].bufs)
                   /\ \A b \in Range(batch[prod[p].b].bufs) : inUse[b] = 1)
    /\ [][\A p \in producers :
            (prod[p].pc = "store" /\ prod'[p].pc = "scan") =>
                /\ inUse[buffers[prod[p].idx]] = 0
                /\ inUse'[buffers[prod[p].idx]] = 1]_vars

\* Pop has returned a full batch while the consumer is in the middle of
\* recycling the batch returned before.
C19_Witness ==
    /\ prod[1].pc = "held" /\ Len(batch[prod[1].b].bufs) = BatchSize
    /\ cons.pc = "rec" /\ cons.idx = 2
    /\ \E b \in Range(batch[cons.b].bufs) : inUse[b] = 0

====
